---- MODULE Spec2Model ----
(***************************************************************************)
(* Model of the SHINE evaluation notebooks:                                *)
(*   Performance_Evaluation.ipynb  calculate_psnr, ssim, calculate_ssim,   *)
(*                                 calculate_snr and the SNR batch cell    *)
(*   noise statistics notebook     compute_correlation_for_distance,       *)
(*                                 relative_distance_correlation,          *)
(*                                 spatial_correlation_heatmap             *)
(*                                                                         *)
(* Arithmetic is exact.  A correlation c / sqrt(D) is kept as a linear     *)
(* combination of square roots of squarefree integers with rational        *)
(* coefficients, which is a canonical form: two numbers are equal iff      *)
(* their representations are equal.  IEEE results that are not numbers     *)
(* (nan, inf, -inf) are kept as such.  Values of log10 and of the Gaussian *)
(* filter of ssim are kept as terms of their exact arguments.              *)
(***************************************************************************)
EXTENDS Integers, Sequences, FiniteSets, TLC

\* ------------------------------------------------------------------ bounds
PairH == 2          \* height of the images given to calculate_psnr / calculate_snr
PairW == 2          \* width of those images
MaxPix == 1         \* pixel intensities are 0..MaxPix
ImgH == 3           \* height of the image given to the noise estimator
ImgW == 2           \* width of that image
MaxDist == 2        \* max_distance is 1..MaxDist
MaxN == 3           \* the image series have 0..MaxN files

\* ------------------------------------------------------- integer helpers
Abs(x) == IF x < 0 THEN -x ELSE x

RECURSIVE Gcd(_, _)
Gcd(a, b) == IF b = 0 THEN Abs(a) ELSE Gcd(b, a % b)

RECURSIVE SumSeq(_)
SumSeq(s) == IF s = <<>> THEN 0 ELSE Head(s) + SumSeq(Tail(s))

RECURSIVE ProdSeq(_)
ProdSeq(s) == IF s = <<>> THEN 1 ELSE Head(s) * ProdSeq(Tail(s))

\* the largest s <= from with s*s dividing v (v > 0)
RECURSIVE SqPartFrom(_, _)
SqPartFrom(v, from) ==
    IF from <= 1 THEN 1
    ELSE IF v % (from * from) = 0 THEN from
    ELSE SqPartFrom(v, from - 1)

RECURSIVE ISqrtFrom(_, _)
ISqrtFrom(v, s) == IF (s + 1) * (s + 1) > v THEN s ELSE ISqrtFrom(v, s + 1)

\* v = SqPart(v)^2 * SqFree(v) with SqFree(v) squarefree (v > 0)
SqPart(v) == SqPartFrom(v, ISqrtFrom(v, 0))
SqFree(v) == v \div (SqPart(v) * SqPart(v))

\* ------------------------------------------------------- exact numbers
\* A number is a set of terms [f, n, d] standing for the sum of
\* (n/d) * sqrt(f); f squarefree, n # 0, d > 0, gcd(n, d) = 1, one term per f.
Zero == {}
One == {[f |-> 1, n |-> 1, d |-> 1]}
NaN == [k |-> "nan", v |-> Zero]
Num(terms) == [k |-> "num", v |-> terms]

Term(f, n, d) ==
    IF n = 0 THEN {}
    ELSE LET g == Gcd(n, d) IN {[f |-> f, n |-> n \div g, d |-> d \div g]}

RECURSIVE SumNum(_)
RECURSIVE SumDen(_)
\* the sum of the coefficients n/d of a set of terms, as SumNum / SumDen
SumDen(ts) == IF ts = {} THEN 1
              ELSE LET t == CHOOSE x \in ts : TRUE IN t.d * SumDen(ts \ {t})
SumNum(ts) == IF ts = {} THEN 0
              ELSE LET t == CHOOSE x \in ts : TRUE
                   IN  t.n * SumDen(ts \ {t}) + t.d * SumNum(ts \ {t})

TermsAdd(X, Y) ==
    UNION { LET xs == {t \in X : t.f = f}
                ys == {t \in Y : t.f = f}
                n == SumNum(xs) * SumDen(ys) + SumNum(ys) * SumDen(xs)
                d == SumDen(xs) * SumDen(ys)
            IN  Term(f, n, d) : f \in {t.f : t \in X \cup Y} }

\* terms * (p / q), q > 0
TermsScale(X, p, q) == UNION { Term(t.f, t.n * p, t.d * q) : t \in X }

\* c / (sqrt(v1) * sqrt(v2)) for v1, v2 > 0
Surd(c, v1, v2) ==
    LET g == Gcd(SqFree(v1), SqFree(v2))
        f == (SqFree(v1) \div g) * (SqFree(v2) \div g)
        s == SqPart(v1) * SqPart(v2) * g
    IN  Term(f, c, s * f)

IsNeg(x) == x.k = "num" /\ \E t \in x.v : t.n < 0 /\ Cardinality(x.v) = 1

\* IEEE addition and division by a positive count, on nan and numbers
NumAdd(x, y) == IF x.k = "nan" \/ y.k = "nan" THEN NaN ELSE Num(TermsAdd(x.v, y.v))
NumDiv(x, cnt) == IF x.k = "nan" THEN NaN ELSE Num(TermsScale(x.v, 1, cnt))

RECURSIVE NumSum(_)
NumSum(s) == IF s = <<>> THEN Num(Zero) ELSE NumAdd(Head(s), NumSum(Tail(s)))

\* np.mean of a non-empty list of floats
NumMean(s) == NumDiv(NumSum(s), Len(s))

\* ------------------------------------------------------------- arrays
\* An ndarray is its shape and its elements in row-major order.
Size(shape) == ProdSeq(shape)
Array(shape, data) == [shape |-> shape, data |-> data]
Pixels == 0..MaxPix
ArraysOf(shape) == { Array(shape, d) : d \in [1..Size(shape) -> Pixels] }
Ndim(a) == Len(a.shape)

\* a[i, j] of a 2D array, i and j from 0
At(a, i, j) == a.data[i * a.shape[2] + j + 1]

\* a[:, col] of a 2D array
Column(a, col) == [i \in 1..a.shape[1] |-> At(a, i - 1, col)]

\* a.flatten()
Flatten(a) == a.data

\* N * (x - np.mean(x)): the centred vector, scaled by its length N
Centered(x) == [i \in 1..Len(x) |-> Len(x) * x[i] - SumSeq(x)]

Dot(x, y) == SumSeq([i \in 1..Len(x) |-> x[i] * y[i]])

\* ------------------------------------------------- outcomes of a call
Return(v) == [out |-> "return", val |-> v]
Raise(msg) == [out |-> "raise", val |-> msg]
None == [k |-> "None", v |-> Zero]
Inf == [k |-> "inf", v |-> Zero]
NegInf == [k |-> "-inf", v |-> Zero]

\* ------------------------------------------------------ calculate_psnr
\* np.mean((img1 - img2)**2) as the fraction <<numerator, denominator>>
Mse(img1, img2) ==
    LET x == Flatten(img1)
        y == Flatten(img2)
        sq == SumSeq([i \in 1..Len(x) |-> (x[i] - y[i]) * (x[i] - y[i])])
        g == Gcd(sq, Len(x))
    IN  <<sq \div g, Len(x) \div g>>

\* variant: the differences are averaged without being squared
calculate_psnr_unsquared(img1, img2) ==
    LET x == Flatten(img1)
        y == Flatten(img2)
        sm == SumSeq([j \in 1..Len(x) |-> x[j] - y[j]])
    IN  IF sm = 0 THEN Return(Inf)
        ELSE Return([k |-> "psnr_db", v |-> <<sm, Len(x)>>])

\* a finite result is the term 20 * log10(255 / sqrt(mse)) of its mse
calculate_psnr(img1, img2) ==
    LET mse == Mse(img1, img2)
    IN  IF mse[1] = 0 THEN Return(Inf)
        ELSE Return([k |-> "psnr_db", v |-> mse])

\* ------------------------------------------------- ssim, calculate_ssim
\* The Gaussian-windowed similarity of two arrays: a function of the two
\* arrays, kept as the term of its arguments.
ssim(img1, img2) == [k |-> "ssim", v |-> <<img1, img2>>]

\* np.squeeze: drops every axis of length 1
Squeeze(a) == Array(SelectSeq(a.shape, LAMBDA d : d # 1), a.data)

\* np.array(ssims).mean(): the mean of equal floats x, x, x is x
MeanOfList(s) ==
    IF \A j \in 1..Len(s) : s[j] = s[1] THEN s[1] ELSE [k |-> "mean", v |-> s]

\* img[:, :, c] of a 3D array, c from 0
Channel(a, c) ==
    Array(<<a.shape[1], a.shape[2]>>,
          [p \in 1..(a.shape[1] * a.shape[2]) |-> a.data[(p - 1) * a.shape[3] + c + 1]])

\* variant: only the number of axes is compared
calculate_ssim_ndim(img1, img2) ==
    IF Ndim(img1) # Ndim(img2)
    THEN Raise("Input images must have the same dimensions.")
    ELSE IF Ndim(img1) = 2 THEN Return(ssim(img1, img2))
    ELSE IF Ndim(img1) = 3
         THEN IF img1.shape[3] = 3
              THEN Return(MeanOfList([c \in 1..3 |-> ssim(img1, img2)]))
              ELSE IF img1.shape[3] = 1
                   THEN Return(ssim(Squeeze(img1), Squeeze(img2)))
                   ELSE Return(None)
         ELSE Raise("Wrong input image dimensions.")

\* variant: the loop over the channels slices the channel
calculate_ssim_per_channel(img1, img2) ==
    IF img1.shape # img2.shape
    THEN Raise("Input images must have the same dimensions.")
    ELSE IF Ndim(img1) = 2 THEN Return(ssim(img1, img2))
    ELSE IF Ndim(img1) = 3
         THEN IF img1.shape[3] = 3
              THEN Return(MeanOfList([c \in 1..3 |->
                            ssim(Channel(img1, c - 1), Channel(img2, c - 1))]))
              ELSE IF img1.shape[3] = 1
                   THEN Return(ssim(Squeeze(img1), Squeeze(img2)))
                   ELSE Return(None)
         ELSE Raise("Wrong input image dimensions.")

calculate_ssim(img1, img2) ==
    IF img1.shape # img2.shape
    THEN Raise("Input images must have the same dimensions.")
    ELSE IF Ndim(img1) = 2 THEN Return(ssim(img1, img2))
    ELSE IF Ndim(img1) = 3
         THEN IF img1.shape[3] = 3
              THEN Return(MeanOfList([c \in 1..3 |-> ssim(img1, img2)]))
              ELSE IF img1.shape[3] = 1
                   THEN Return(ssim(Squeeze(img1), Squeeze(img2)))
                   ELSE Return(None)
         ELSE Raise("Wrong input image dimensions.")

\* ------------------------------------------------------- calculate_snr
\* np.corrcoef(x, y)[0, 1]: c / sqrt(v1 * v2), and 0/0 = nan when a
\* vector is constant
Pearson(x, y) ==
    LET cx == Centered(x)
        cy == Centered(y)
        c == Dot(cx, cy)
        v1 == Dot(cx, cx)
        v2 == Dot(cy, cy)
    IN  IF v1 = 0 \/ v2 = 0 THEN NaN ELSE Num(Surd(c, v1, v2))

\* variant: the means are not subtracted
snr_r_uncentered(img1, img2) ==
    LET d1 == Flatten(img1)
        d2 == Flatten(img2)
    IN  IF Dot(d1, d1) * Dot(d2, d2) = 0 THEN NaN
        ELSE Num(Surd(Dot(d1, d2), Dot(d1, d1), Dot(d2, d2)))

\* variant: the covariance is divided by the variance of img1 alone
snr_r_var1(img1, img2) ==
    LET d1 == Centered(Flatten(img1))
        d2 == Centered(Flatten(img2))
    IN  IF Dot(d1, d1) * Dot(d2, d2) = 0 THEN NaN
        ELSE Num(Surd(Dot(d1, d2), Dot(d1, d1), Dot(d1, d1)))

\* r of calculate_snr: np.mean((img1 - mean1) * (img2 - mean2)) over
\* np.sqrt(np.mean((img1 - mean1)**2) * np.mean((img2 - mean2)**2));
\* the three means share the factor 1 / N^3, which cancels
snr_r(img1, img2) ==
    LET d1 == Centered(Flatten(img1))
        d2 == Centered(Flatten(img2))
    IN  IF Dot(d1, d1) * Dot(d2, d2) = 0 THEN NaN
        ELSE Num(Surd(Dot(d1, d2), Dot(d1, d1), Dot(d2, d2)))

GreaterOne(x) == x.k = "num" /\ \E t \in x.v : t.n > 0 /\ t.n * t.n * t.f > t.d * t.d

\* 10 * np.log10(r / (1 - r)): nan for nan and for a negative quotient,
\* inf for 1/0, -inf for log10(0), else the term of r
SnrOfR(r) ==
    IF r.k = "nan" THEN NaN
    ELSE IF r.v = One THEN Inf
    ELSE IF r.v = Zero THEN NegInf
    ELSE IF IsNeg(r) \/ GreaterOne(r) THEN NaN
    ELSE [k |-> "db", v |-> r.v]

\* the lines calculate_snr prints
snr_printed(img1, img2) ==
    LET r == snr_r(img1, img2)
    IN  IF IsNeg(r) THEN << <<img1, img2, r>> >> ELSE <<>>

\* variant: a negative r is an error
calculate_snr_raising(img1, img2) ==
    IF IsNeg(snr_r(img1, img2)) THEN Raise("ValueError")
    ELSE Return(SnrOfR(snr_r(img1, img2)))

calculate_snr(img1, img2) == Return(SnrOfR(snr_r(img1, img2)))

\* ----------------------------------------------- noise-correlation estimator
\* variant: the shift is not cyclic, pixels shifted in are 0
Roll_zero_fill(img, dx, dy) ==
    LET h == img.shape[1]
        w == img.shape[2]
    IN  Array(img.shape,
              [p \in 1..(h * w) |->
                  LET r == ((p - 1) \div w) - dx
                      c == ((p - 1) % w) - dy
                  IN  IF r \in 0..(h - 1) /\ c \in 0..(w - 1) THEN At(img, r, c) ELSE 0])

\* np.roll(img, shift=(dx, dy), axis=(0, 1))
Roll(img, dx, dy) ==
    LET h == img.shape[1]
        w == img.shape[2]
    IN  Array(img.shape,
              [p \in 1..(h * w) |->
                  At(img, (((p - 1) \div w) - dx) % h, (((p - 1) % w) - dy) % w)])

\* the value appended for the offset (dx, dy)
OffsetCorrelation(noise_img, dx, dy) ==
    IF dx = 0 /\ dy = 0 THEN Num(One)
    ELSE LET shifted == Roll(noise_img, dx, dy)
         IN  NumMean([c \in 1..noise_img.shape[2] |->
                        Pearson(Column(noise_img, c - 1), Column(shifted, c - 1))])

\* the offsets visited by the two nested loops over range(distance + 1)
SquareOffsets(distance) ==
    [p \in 1..((distance + 1) * (distance + 1)) |->
        <<(p - 1) \div (distance + 1), (p - 1) % (distance + 1)>>]

\* variant: the offset (0, 0) is skipped, nothing is appended for it
compute_correlation_for_distance_no_self(noise_img, distance) ==
    LET offs == Tail(SquareOffsets(distance))
    IN  NumMean([p \in 1..Len(offs) |->
                   OffsetCorrelation(noise_img, offs[p][1], offs[p][2])])

compute_correlation_for_distance(noise_img, distance) ==
    LET offs == SquareOffsets(distance)
    IN  NumMean([p \in 1..Len(offs) |->
                   OffsetCorrelation(noise_img, offs[p][1], offs[p][2])])

relative_distance_correlation(image_tensor, max_dist) ==
    [distance \in 1..max_dist |->
        compute_correlation_for_distance(image_tensor, distance)]

\* the inner corr(x, y) of spatial_correlation_heatmap
corr(x, y) ==
    LET cx == Centered(x)
        cy == Centered(y)
    IN  IF Dot(cx, cx) = 0 \/ Dot(cy, cy) = 0 THEN NaN
        ELSE Num(Surd(Dot(cx, cy), Dot(cx, cx), Dot(cy, cy)))

HeatmapCell(image_tensor, dx, dy) ==
    IF dx = 0 /\ dy = 0 THEN Num(One)
    ELSE corr(Flatten(image_tensor), Flatten(Roll(image_tensor, dx, dy)))

\* heatmap[ix][iy] for ix, iy in 0..2*max_dist holds the offset
\* (ix - max_dist, iy - max_dist)
spatial_correlation_heatmap(image_tensor, max_dist) ==
    [ix \in 0..(2 * max_dist) |->
        [iy \in 0..(2 * max_dist) |->
            HeatmapCell(image_tensor, ix - max_dist, iy - max_dist)]]

\* ------------------------------------------------------ SNR batch cell
\* np.mean of a slice of SNR values: nan for an empty slice, for a nan and
\* for inf + -inf; else inf or -inf if one is present; else the term
BatchMean(s) ==
    LET ks == {s[j].k : j \in 1..Len(s)}
    IN  IF s = <<>> \/ "nan" \in ks \/ {"inf", "-inf"} \subseteq ks THEN NaN
        ELSE IF "inf" \in ks THEN Inf
        ELSE IF "-inf" \in ks THEN NegInf
        ELSE [k |-> "mean", v |-> s]

\* np.std of a slice of SNR values: nan unless every value is finite
BatchStd(s) ==
    LET ks == {s[j].k : j \in 1..Len(s)}
    IN  IF s = <<>> \/ ks \cap {"nan", "inf", "-inf"} # {} THEN NaN
        ELSE [k |-> "std", v |-> s]

\* np.zeros(n): the float 0.0, n times
Zeros(n) == [j \in 1..n |-> Num(Zero)]

\* arr[2:]
From2(arr) == SubSeq(arr, 3, Len(arr))

\* np.savetxt(..., fmt="%.6f"): one formatted row per element
SaveTxt(arr) == [j \in 1..Len(arr) |-> [fmt |-> "%.6f", of |-> arr[j]]]

\* ------------------------------------------------------------- inputs
EmptyArray == Array(<<0>>, <<>>)
PairImages == ArraysOf(<<PairH, PairW>>)
NoiseImages == ArraysOf(<<ImgH, ImgW>>)
SsimShapes == {<<2>>, <<1, 2>>, <<2, 1>>, <<1, 1, 1>>, <<1, 1, 2>>,
               <<1, 1, 3>>, <<1, 1, 4>>, <<1, 1, 1, 1>>}
SsimArrays == UNION { ArraysOf(sh) : sh \in SsimShapes }
\* the frames the noisy series is made of: their correlations are negative,
\* zero, between 0 and 1, and 1
NoisyFrames ==
    { Array(<<1, 3>>, d) : d \in {<<0, 0, 1>>, <<0, 1, 1>>, <<0, 1, 0>>, <<0, 1, 2>>} }
\* the frames the denoised series is made of: their correlations are positive
DenoisedFrames ==
    { Array(<<1, 3>>, d) : d \in {<<0, 0, 1>>, <<0, 1, 1>>, <<0, 1, 2>>} }
SeriesOf(frames) == UNION { [1..n -> frames] : n \in 0..MaxN }
Ops == {"psnr", "ssim", "snr", "heatmap", "reldist", "batch"}
NoRet == [out |-> "none", val |-> None]

VARIABLES op, img1, img2, max_distance, noisy_list, denoised_list,
          pc, ret, stdout, i, snr_noisy, snr_denoised, files,
          writes_noisy, writes_denoised

vars == <<op, img1, img2, max_distance, noisy_list, denoised_list,
          pc, ret, stdout, i, snr_noisy, snr_denoised, files,
          writes_noisy, writes_denoised>>

inputs == <<op, img1, img2, max_distance, noisy_list, denoised_list>>
batch == <<i, snr_noisy, snr_denoised, files, writes_noisy, writes_denoised>>

Init ==
    /\ op \in Ops
    /\ \/ op \in {"psnr", "snr"} /\ img1 \in PairImages /\ img2 \in PairImages
          /\ max_distance = 0
       \/ op = "ssim" /\ img1 \in SsimArrays /\ img2 \in SsimArrays
          /\ max_distance = 0
       \/ op \in {"heatmap", "reldist"} /\ img1 \in NoiseImages
          /\ img2 = EmptyArray /\ max_distance \in 1..MaxDist
       \/ op = "batch" /\ img1 = EmptyArray /\ img2 = EmptyArray
          /\ max_distance = 0
    /\ IF op = "batch"
       THEN noisy_list \in SeriesOf(NoisyFrames) /\ denoised_list \in SeriesOf(DenoisedFrames)
       ELSE noisy_list = <<>> /\ denoised_list = <<>>
    /\ pc = "call"
    /\ ret = NoRet
    /\ stdout = <<>>
    /\ i = 0
    /\ snr_noisy = <<>>
    /\ snr_denoised = <<>>
    /\ files = [name \in {} |-> <<>>]
    /\ writes_noisy = <<>>
    /\ writes_denoised = <<>>

CallPsnr ==
    /\ pc = "call" /\ op = "psnr"
    /\ ret' = calculate_psnr(img1, img2)
    /\ pc' = "returned"
    /\ UNCHANGED <<inputs, batch, stdout>>

CallSsim ==
    /\ pc = "call" /\ op = "ssim"
    /\ ret' = calculate_ssim(img1, img2)
    /\ pc' = "returned"
    /\ UNCHANGED <<inputs, batch, stdout>>

CallSnr ==
    /\ pc = "call" /\ op = "snr"
    /\ ret' = calculate_snr(img1, img2)
    /\ stdout' = stdout \o snr_printed(img1, img2)
    /\ pc' = "returned"
    /\ UNCHANGED <<inputs, batch>>

CallHeatmap ==
    /\ pc = "call" /\ op = "heatmap"
    /\ ret' = Return(spatial_correlation_heatmap(img1, max_distance))
    /\ pc' = "returned"
    /\ UNCHANGED <<inputs, batch, stdout>>

CallRelDist ==
    /\ pc = "call" /\ op = "reldist"
    /\ ret' = Return(relative_distance_correlation(img1, max_distance))
    /\ pc' = "returned"
    /\ UNCHANGED <<inputs, batch, stdout>>

\* num_img = len(noisy_list); the two np.zeros(num_img + 1)
num_img == Len(noisy_list)

BatchStart ==
    /\ pc = "call" /\ op = "batch"
    /\ snr_noisy' = Zeros(num_img + 1)
    /\ snr_denoised' = Zeros(num_img + 1)
    /\ writes_noisy' = [j \in 1..(num_img + 1) |-> 0]
    /\ writes_denoised' = [j \in 1..(num_img + 1) |-> 0]
    /\ i' = 0
    /\ pc' = "loop"
    /\ UNCHANGED <<inputs, ret, stdout, files>>

\* variant: the rows start right after the mean
LoopRow_off_by_one(it) == it + 1

\* the row (from 0) that iteration it of the loop assigns
LoopRow(it) == it + 2

WriteFile(name, arr) ==
    [n \in DOMAIN files \cup {name} |-> IF n = name THEN SaveTxt(arr) ELSE files[n]]

\* one iteration of `for i in range(num_img - 1)`.  An assignment to a row
\* past the end of the array, or an index past the end of denoised_list,
\* raises IndexError; the statements before it have taken effect.
LoopStatements ==
    /\ pc = "loop" /\ i < num_img - 1
    /\ LET noisy == calculate_snr(noisy_list[i + 1], noisy_list[i + 2])
           noisy_out == snr_printed(noisy_list[i + 1], noisy_list[i + 2])
           row == LoopRow(i) + 1
       IN  IF noisy.out = "raise"
           THEN /\ pc' = "aborted" /\ ret' = noisy
                /\ UNCHANGED <<stdout, i, snr_noisy, snr_denoised,
                               writes_noisy, writes_denoised>>
           ELSE IF row > Len(snr_noisy)
           THEN /\ pc' = "aborted" /\ ret' = Raise("IndexError")
                /\ stdout' = stdout \o noisy_out
                /\ UNCHANGED <<i, snr_noisy, snr_denoised,
                               writes_noisy, writes_denoised>>
           ELSE /\ snr_noisy' = [snr_noisy EXCEPT ![row] = noisy.val]
                /\ writes_noisy' = [writes_noisy EXCEPT ![row] = @ + 1]
                /\ IF i + 2 > Len(denoised_list)
                   THEN /\ pc' = "aborted" /\ ret' = Raise("IndexError")
                        /\ stdout' = stdout \o noisy_out
                        /\ UNCHANGED <<i, snr_denoised, writes_denoised>>
                   ELSE LET den == calculate_snr(denoised_list[i + 1],
                                                 denoised_list[i + 2])
                            den_out == snr_printed(denoised_list[i + 1],
                                                   denoised_list[i + 2])
                        IN  IF den.out = "raise"
                            THEN /\ pc' = "aborted" /\ ret' = den
                                 /\ stdout' = stdout \o noisy_out
                                 /\ UNCHANGED <<i, snr_denoised, writes_denoised>>
                            ELSE /\ snr_denoised' =
                                      [snr_denoised EXCEPT ![row] = den.val]
                                 /\ writes_denoised' =
                                      [writes_denoised EXCEPT ![row] = @ + 1]
                                 /\ stdout' = stdout \o noisy_out \o den_out
                                 /\ i' = i + 1
                                 /\ UNCHANGED <<pc, ret>>

\* variant: np.savetxt of snr_noisy is inside the loop
LoopIteration_saving ==
    /\ LoopStatements
    /\ files' = WriteFile("snr_noisy.txt", snr_noisy')
    /\ UNCHANGED inputs

\* the loop writes no file
LoopIteration ==
    /\ LoopStatements
    /\ UNCHANGED <<inputs, files>>

\* snr[0] = np.mean(snr[2:]); snr[1] = np.std(snr[2:])
WithHeader(arr) ==
    LET m == [arr EXCEPT ![1] = BatchMean(From2(arr))]
    IN  [m EXCEPT ![2] = BatchStd(From2(m))]

\* the four header assignments after the loop; with an empty noisy_list the
\* arrays have one row and snr_noisy[1] raises IndexError
Header ==
    /\ pc = "loop" /\ i >= num_img - 1
    /\ IF num_img = 0
       THEN /\ snr_noisy' = [snr_noisy EXCEPT ![1] = BatchMean(From2(snr_noisy))]
            /\ pc' = "aborted"
            /\ ret' = Raise("IndexError")
            /\ UNCHANGED snr_denoised
       ELSE /\ snr_noisy' = WithHeader(snr_noisy)
            /\ snr_denoised' = WithHeader(snr_denoised)
            /\ pc' = "save_noisy"
            /\ UNCHANGED ret
    /\ UNCHANGED <<inputs, stdout, i, files, writes_noisy, writes_denoised>>

SaveNoisy ==
    /\ pc = "save_noisy"
    /\ files' = WriteFile("snr_noisy.txt", snr_noisy)
    /\ pc' = "save_denoised"
    /\ UNCHANGED <<inputs, ret, stdout, i, snr_noisy, snr_denoised,
                   writes_noisy, writes_denoised>>

SaveDenoised ==
    /\ pc = "save_denoised"
    /\ files' = WriteFile("snr_denoised.txt", snr_denoised)
    /\ pc' = "print"
    /\ UNCHANGED <<inputs, ret, stdout, i, snr_noisy, snr_denoised,
                   writes_noisy, writes_denoised>>

PrintSummary ==
    /\ pc = "print"
    /\ stdout' = stdout \o << <<"mean SNR of noisy images", snr_noisy[1], snr_noisy[2]>>,
                             <<"mean SNR of denoised images", snr_denoised[1], snr_denoised[2]>> >>
    /\ pc' = "done"
    /\ UNCHANGED <<inputs, ret, batch>>

Next ==
    \/ CallPsnr
    \/ CallSsim
    \/ CallSnr
    \/ CallHeatmap
    \/ CallRelDist
    \/ BatchStart
    \/ LoopIteration
    \/ Header
    \/ SaveNoisy
    \/ SaveDenoised
    \/ PrintSummary

Spec == Init /\ [][Next]_vars

\* ================================================================ claims
Returned(o) == pc = "returned" /\ op = o

\* the number of positions at which two equally long vectors differ
DiffCount(x, y) == Cardinality({j \in 1..Len(x) : x[j] # y[j]})

\* C1: for two images of identical shape, calculate_psnr returns +infinity
\* exactly when the mean squared error is 0, that is when the two images are
\* equal pixel for pixel; every pair that differs in a pixel gets a finite
\* value.
C1_PsnrInfIffEqual ==
    Returned("psnr") =>
        /\ ret.out = "return"
        /\ (ret.val.k = "inf") <=> (Mse(img1, img2)[1] = 0)
        /\ (ret.val.k = "inf") <=> (img1 = img2)
        /\ (img1 # img2) => ret.val.k = "psnr_db"

\* C1 witness: two images that differ in exactly one pixel got a finite value
C1_Witness ==
    /\ Returned("psnr")
    /\ DiffCount(img1.data, img2.data) = 1
    /\ ret.val.k = "psnr_db"

\* C2: calculate_ssim raises the dimension error whenever the two inputs
\* differ in shape, whatever their number of axes; no such call returns a
\* value.
C2_SsimShapeMismatchRaises ==
    (Returned("ssim") /\ img1.shape # img2.shape) =>
        ret = Raise("Input images must have the same dimensions.")

\* C2 witness: two 3D inputs of different shapes raised
C2_Witness ==
    /\ Returned("ssim")
    /\ Ndim(img1) = 3 /\ Ndim(img2) = 3 /\ img1.shape # img2.shape
    /\ ret.out = "raise"

\* C3: for two inputs of equal shape, every call of calculate_ssim either
\* returns a numeric SSIM value or raises ValueError; none ends without a
\* value and without an error.
C3_SsimValueOrError ==
    (Returned("ssim") /\ img1.shape = img2.shape) =>
        \/ ret.out = "raise"
        \/ ret.out = "return" /\ ret.val.k # "None"

\* an image whose pixels are all equal
IsConstant(img) == \A j \in 1..Len(img.data) : img.data[j] = img.data[1]

\* C4 as stated: calculate_snr of every image and itself gives +infinity,
\* also for an image whose pixels are all equal.
C4_SnrSelfIsInf ==
    (Returned("snr") /\ img1 = img2) => ret = Return(Inf)

\* C4 as amended: for every image with at least two distinct pixel values
\* the correlation of the image with itself is 1 and calculate_snr gives
\* +infinity; for an image whose pixels are all equal r is 0/0 = nan and
\* the returned value is nan.
C4_SnrSelfInfUnlessConstant ==
    (Returned("snr") /\ img1 = img2) =>
        IF IsConstant(img1)
        THEN snr_r(img1, img2) = NaN /\ ret = Return(NaN)
        ELSE snr_r(img1, img2) = Num(One) /\ ret = Return(Inf)

\* C4 witness: an image with two distinct pixel values, given twice, gave inf
C4_Witness ==
    /\ Returned("snr")
    /\ img1 = img2 /\ ~IsConstant(img1)
    /\ ret = Return(Inf)

\* C5: calculate_snr is symmetric: for equally shaped images the r computed
\* for (img1, img2) is the r computed for (img2, img1), and the returned
\* value is the value returned for the swapped arguments (nan on both
\* sides counts as the same outcome).
C5_SnrSymmetric ==
    Returned("snr") =>
        /\ snr_r(img1, img2) = snr_r(img2, img1)
        /\ ret = calculate_snr(img2, img1)

\* C5 witness: two different images with 0 < r < 1 got a finite value
C5_Witness ==
    /\ Returned("snr")
    /\ img1 # img2
    /\ ret.val.k = "db"

\* C6: the heatmap is symmetric under negation of the offset, cell
\* [max_distance + dx][max_distance + dy] equals cell
\* [max_distance - dx][max_distance - dy] for all dx, dy in
\* -max_distance..max_distance, and the centre cell is exactly 1.0.
C6_HeatmapSymmetric ==
    Returned("heatmap") =>
        /\ \A dx, dy \in (-max_distance)..max_distance :
              ret.val[max_distance + dx][max_distance + dy]
                  = ret.val[max_distance - dx][max_distance - dy]
        /\ ret.val[max_distance][max_distance] = Num(One)

\* C6 witness: a heatmap with max_distance = MaxDist whose cells off the
\* centre are numbers, not all of them equal
C6_Witness ==
    /\ Returned("heatmap")
    /\ max_distance = MaxDist
    /\ \A ix, iy \in 0..(2 * max_distance) : ret.val[ix][iy].k = "num"
    /\ ret.val[max_distance + 1][max_distance] # ret.val[max_distance][max_distance + 1]
    /\ ret.val[max_distance + 1][max_distance] # Num(One)

\* the SNR of the adjacent pairs (frame j, frame j + 1) of a series, in order
PairValues(list) ==
    [j \in 1..(Len(list) - 1) |-> SnrOfR(snr_r(list[j], list[j + 1]))]

\* what C7 says of one result file, its array and the series it is made
\* from; n is num_img, the frames are the first n of the series
RowsOfSeries(name, list, writes) ==
    LET n == Len(noisy_list)
        f == files[name]
        pairs == PairValues(SubSeq(list, 1, n))
    IN  /\ Len(f) = n + 1
        /\ Len(list) >= n
        /\ Len(pairs) = n - 1
        /\ writes[1] = 0 /\ writes[2] = 0
        /\ \A j \in 0..(n - 2) : writes[j + 3] = 1
        /\ \A j \in 1..Len(f) : f[j].fmt = "%.6f"
        /\ \A j \in 0..(n - 2) : f[j + 3].of = pairs[j + 1]
        /\ f[1].of = BatchMean(pairs)
        /\ f[2].of = BatchStd(pairs)

\* C7: for a series of n >= 2 images each result file has n + 1 rows: row 0
\* the mean, row 1 the standard deviation, row i + 2 the SNR of the pair
\* (frame i, frame i + 1) for i in 0..n-2; each of the rows 2..n was
\* assigned by exactly one loop iteration, and the mean and the standard
\* deviation are taken over exactly those n - 1 values.
C7_ResultRows ==
    Len(noisy_list) >= 2 =>
        /\ "snr_noisy.txt" \in DOMAIN files =>
              RowsOfSeries("snr_noisy.txt", noisy_list, writes_noisy)
        /\ "snr_denoised.txt" \in DOMAIN files =>
              RowsOfSeries("snr_denoised.txt", denoised_list, writes_denoised)

\* C7 witness: both files are written for a series of at least three images
\* whose pairs gave different values
C7_Witness ==
    /\ pc = "done"
    /\ Len(noisy_list) >= 3
    /\ DOMAIN files = {"snr_noisy.txt", "snr_denoised.txt"}
    /\ snr_noisy[3] # snr_noisy[4]
    /\ snr_denoised[3] # snr_denoised[4]
    /\ snr_noisy[1].k = "mean"

\* the pairs of a series with a negative correlation
NegativePairs(list) ==
    {j \in 1..(Len(list) - 1) : IsNeg(snr_r(list[j], list[j + 1]))}

\* C8: when r is negative calculate_snr prints the two names and r and
\* returns 10 * log10(r / (1 - r)) of the negative quotient, which is nan;
\* it raises nothing and does not replace r.  In the batch the loop goes on
\* with the next pair, and the nan is in the row of the pair and in the
\* mean and the standard deviation.
C8_NegativeRProceeds ==
    /\ (Returned("snr") /\ IsNeg(snr_r(img1, img2))) =>
          /\ ret = Return(NaN)
          /\ stdout = << <<img1, img2, snr_r(img1, img2)>> >>
    /\ (op = "batch" /\ pc \in {"loop", "save_noisy", "save_denoised", "print", "done"}) =>
          \A j \in NegativePairs(noisy_list) :
              /\ j <= i => snr_noisy[j + 2] = NaN
              /\ pc # "loop" => snr_noisy[1] = NaN /\ snr_noisy[2] = NaN
    /\ (op = "batch" /\ pc = "aborted") =>
          (ret = Raise("IndexError")
             /\ (Len(noisy_list) = 0 \/ Len(denoised_list) < Len(noisy_list)))

\* C8 witness: a run whose first noisy pair has a negative r went on to the
\* second pair, which has a finite value, and wrote the files
C8_Witness ==
    /\ pc = "done"
    /\ 1 \in NegativePairs(noisy_list)
    /\ Len(noisy_list) >= 3
    /\ snr_noisy[3] = NaN /\ snr_noisy[4].k = "db"
    /\ snr_noisy[1] = NaN /\ snr_noisy[2] = NaN
    /\ Len(stdout) >= 3

\* C9: for 3-channel inputs of equal shape the value calculate_ssim returns
\* is ssim of the whole, unsliced inputs: the three averaged values do not
\* depend on the channel index.
C9_SsimThreeChannelsUnsliced ==
    (Returned("ssim") /\ img1.shape = img2.shape
        /\ Ndim(img1) = 3 /\ img1.shape[3] = 3) =>
        ret = Return(ssim(img1, img2))

\* C9 witness: a 3-channel pair whose channels differ from one another
C9_Witness ==
    /\ Returned("ssim")
    /\ img1.shape = img2.shape /\ Ndim(img1) = 3 /\ img1.shape[3] = 3
    /\ ~IsConstant(img1) /\ img1 # img2
    /\ ret.out = "return" /\ ret.val.k = "ssim"

\* the offsets (dx, dy) in 0..d whose larger component is d
RingOffsets(d) == {o \in (0..d) \X (0..d) : o[1] = d \/ o[2] = d}

RECURSIVE RingSum(_, _)
\* the sum of the correlations of a set of offsets
RingSum(img, offs) ==
    IF offs = {} THEN Num(Zero)
    ELSE LET o == CHOOSE x \in offs : TRUE
         IN  NumAdd(OffsetCorrelation(img, o[1], o[2]), RingSum(img, offs \ {o}))

NumScale(x, p, q) == IF x.k = "nan" THEN NaN ELSE Num(TermsScale(x.v, p, q))

\* C10 as stated: max_distance scalars, and the scalar for distance d is the
\* average correlation over the offsets of magnitude d alone, without the
\* term of (0, 0) and without the offsets of smaller distances.
C10_RingAverageOnly ==
    Returned("reldist") =>
        /\ Len(ret.val) = max_distance
        /\ \A d \in 1..max_distance :
              ret.val[d] = NumDiv(RingSum(img1, RingOffsets(d)),
                                  Cardinality(RingOffsets(d)))

\* C10 as amended: max_distance scalars, one per distance d = 1..max_distance
\* in increasing order; the scalar for d is the mean over all (d + 1)^2
\* offsets 0 <= dx, dy <= d, the offset (0, 0) counted as 1.0: it is the
\* scalar of d - 1 (1.0 for d - 1 = 0) weighted by d^2, plus the
\* correlations of the offsets of magnitude d, over (d + 1)^2.
C10_CumulativeAverage ==
    Returned("reldist") =>
        /\ Len(ret.val) = max_distance
        /\ \A d \in 1..max_distance :
              LET prev == IF d = 1 THEN Num(One) ELSE ret.val[d - 1]
              IN  ret.val[d] =
                      NumDiv(NumAdd(NumScale(prev, d * d, 1),
                                    RingSum(img1, RingOffsets(d))),
                             (d + 1) * (d + 1))

\* C10 witness: max_distance = MaxDist scalars, all numbers, the first two
\* different
C10_Witness ==
    /\ Returned("reldist")
    /\ max_distance = MaxDist
    /\ \A d \in 1..max_distance : ret.val[d].k = "num"
    /\ ret.val[1] # ret.val[2]

\* the rows 2..n of an array have each been assigned by the loop
AllPairsDone(writes) ==
    /\ Len(writes) = num_img + 1
    /\ \A j \in 3..(num_img + 1) : writes[j] = 1

\* C11: a result file is written only after every adjacent pair of the noisy
\* and of the denoised series has produced a value; when a pair computation
\* or the header aborts (denoised_list shorter than the pairs need, empty
\* noisy_list) the run stops with neither snr_noisy.txt nor
\* snr_denoised.txt written, so no file holds a partly filled array.
C11_NoPartialFile ==
    /\ pc = "aborted" => DOMAIN files = {}
    /\ (op = "batch" /\ Len(denoised_list) < num_img /\ num_img >= 2) =>
          DOMAIN files = {}
    /\ (op = "batch" /\ num_img = 0) => DOMAIN files = {}
    /\ DOMAIN files # {} =>
          /\ pc \in {"save_denoised", "print", "done"}
          /\ i >= num_img - 1
          /\ Len(denoised_list) >= num_img \/ num_img = 1
          /\ AllPairsDone(writes_noisy) /\ AllPairsDone(writes_denoised)
          /\ \A name \in DOMAIN files :
                /\ Len(files[name]) = num_img + 1
                /\ \A j \in 3..(num_img + 1) : files[name][j].of.k # "num"

\* C11 witness: the second pair of the denoised series is missing; the run
\* aborted after a full first iteration, with the second noisy row assigned
\* and no file written
C11_Witness ==
    /\ pc = "aborted"
    /\ num_img = 3 /\ Len(denoised_list) = 2
    /\ i = 1
    /\ writes_noisy = <<0, 0, 1, 1>> /\ writes_denoised = <<0, 0, 1, 0>>
    /\ DOMAIN files = {}

====
